---- MODULE Spec2Model ----
(***************************************************************************)
(* Pixleon: the batch tools (format conversion, compression, resizing),    *)
(* the video compressor and the background remover.                        *)
(*                                                                         *)
(* One tool instance is modelled at a time (tool is chosen in Init; the    *)
(* widgets share no state).  The control thread owns the widget fields and *)
(* handles one event at a time: a user gesture on an enabled control, or   *)
(* the notification at the head of the event queue.  Each worker is a      *)
(* QThread whose run() advances in steps; its signals are queued to the    *)
(* control thread in emission order.                                       *)
(*                                                                         *)
(* The background remover calls stop() from _cancel_processing, on a        *)
(* click on the progress dialog's Cancel button.                           *)
(* The batch widgets never call stop() themselves; stop is the worker's    *)
(* public method, and the only reference to a worker is the widget's       *)
(* self.worker, so stop reaches the worker that field names.               *)
(*                                                                         *)
(* A worker whose reference the widget has overwritten or cleared while    *)
(* its thread still runs keeps running here and its signals are still      *)
(* delivered; a build in which the process dies at that point shows a      *)
(* prefix of these behaviours.                                             *)
(*                                                                         *)
(* A slot runs to its end before the next event is handled: message boxes  *)
(* are taken as dismissed at once.                                         *)
(***************************************************************************)
EXTENDS Integers, Sequences, FiniteSets, TLC

\* Bounds of the model.
MaxFiles == 2       \* paths the file picker can offer
MaxEvents == 4      \* user gestures and stop() calls in one behaviour
MaxQueue == 3       \* signals queued and not yet handled

Paths == 1..MaxFiles
Workers == 1..MaxEvents
Tools == {"conv", "comp", "resize"}
AllTools == Tools \cup {"video", "bg"}
None == 0
Dir == 1
VideoFile == 1
Params == {"a", "b"}
Images == 1..MaxFiles

VARIABLES
    tool,                   \* which widget class this instance is
    selected_files,         \* self.selected_files: the one list object
    file_path_to_item_map,  \* path -> colour of its QListWidgetItem
    output_directory,       \* self.output_directory
    param,                  \* value shown by the parameter widgets
    worker,                 \* self.worker: None or a worker id
    success_count,
    fail_count,
    progress_bar,           \* [value, maximum, visible]
    buttons,                \* isEnabled() of the controls
    dir_exists,             \* os.path.exists(output directory)
    queue,                  \* queued signals, oldest first
    ws,                     \* worker objects
    created,                \* workers constructed so far
    events,                 \* gestures and stop() calls so far
    cancelled_count,        \* outcomes the controller marked Cancelled since the last start
    warned,                 \* an "Input Missing" warning box has been shown
    hist,                   \* per worker: what it was given, emitted, had handled
    input_video_path,       \* VideoCompressorWidget.input_video_path
    is_ffmpeg_available,    \* result of _check_ffmpeg at construction
    status_label,           \* text of the status label
    ffmpeg_found,           \* whether get_ffmpeg_path() finds the encoder now
    input_exists,           \* os.path.exists(input video)
    output_exists,          \* os.path.exists(output file)
    vws,                    \* VideoCompressionWorker objects
    vhist,                  \* per video worker: signals emitted and handled
    input_image_path,       \* BackgroundRemoverWidget.input_image_path
    processed_image_data,   \* None, or the image the stored result was computed from
    progress_dialog,        \* "none", "shown" or "hidden"
    save_button,            \* isEnabled() of the save control
    bws,                    \* BackgroundRemovalWorker objects
    bhist,                  \* per background worker: signals emitted and handled
    calc                    \* one computation: its name, its inputs, its results

\* The state of the tool's widget and of its workers.
widget == <<tool, selected_files, file_path_to_item_map, output_directory, param,
            worker, success_count, fail_count, progress_bar, buttons, dir_exists,
            queue, ws, created, events, cancelled_count, warned, hist,
            input_video_path, is_ffmpeg_available, status_label, ffmpeg_found,
            input_exists, output_exists, vws, vhist,
            input_image_path, processed_image_data, progress_dialog, save_button,
            bws, bhist>>

vars == <<widget, calc>>

\* The video compressor's own state.
video == <<input_video_path, is_ffmpeg_available, status_label, ffmpeg_found,
           input_exists, output_exists, vws, vhist>>

\* The background remover's own state.
bg == <<input_image_path, processed_image_data, progress_dialog, save_button,
        bws, bhist>>

\* The batch tools' own state.
batch == <<selected_files, file_path_to_item_map, success_count, fail_count,
           progress_bar, ws, cancelled_count, warned, hist>>

ctrl == <<selected_files, file_path_to_item_map, output_directory, param,
          worker, success_count, fail_count, progress_bar, buttons>>

----
\* Helpers

Range(s) == {s[k] : k \in 1..Len(s)}

AscSeq(S) ==
    CHOOSE s \in [1..Cardinality(S) -> S] :
        \A a, b \in 1..Cardinality(S) : a < b => s[a] < s[b]

\* What the file picker returns here: the first n paths, n >= 1.
DialogFiles == {AscSeq(1..n) : n \in 1..MaxFiles}

NotInMap(m, f) == f \notin DOMAIN m

\* QThread.isRunning(): from start() until run() has returned.
isRunning(w) == ws[w].pc \in {"start", "top", "mk", "op"}

\* A worker is live from start() until the controller has handled its
\* finished signal.
Live(w) == ws[w].pc # "new" /\ ~hist[w].fin

LiveWorkers == {w \in Workers : Live(w)}

\* The list a worker iterates over.  The widgets pass self.selected_files
\* itself to the worker, and only ever mutate that list in place (extend,
\* clear), so every worker of the widget reads the widget's list.
input_paths(w) == selected_files

----
\* QProgressBar (minimum is 0 throughout)

setValue(pb, v) ==
    IF (v > pb.maximum \/ v < 0) /\ pb.maximum # 0
    THEN pb
    ELSE [pb EXCEPT !.value = v]

setMaximum(pb, m) ==
    LET mx == IF m < 0 THEN 0 ELSE m
    IN  [pb EXCEPT !.maximum = mx,
                   !.value = IF pb.value > mx THEN -1 ELSE pb.value]

----
\* Status strings

SuccessStatus(t) ==
    CASE t = "conv" -> "Success"
      [] t = "comp" -> "Success (Q)"
      [] t = "resize" -> "Success (WxH)"

ErrorStatus == "Error"
MkdirErrorStatus == "Error: Cannot create output dir"
Cancelled == "Cancelled"

StartsWithSuccess(status) ==
    status \in {"Success", "Success (Q)", "Success (WxH)"}

\* The branch _handle_file_result takes for a status.
OutcomeKind(t, status) ==
    IF (IF t = "conv" THEN status = "Success" ELSE StartsWithSuccess(status))
    THEN "Success"
    ELSE IF status = Cancelled THEN "Cancelled" ELSE "Failure"

Colour(kind) ==
    CASE kind = "Success" -> "lightgreen"
      [] kind = "Cancelled" -> "orange"
      [] kind = "Failure" -> "red"

----
\* Messages

Msg(type, w, path, status, value, total) ==
    [type |-> type, w |-> w, path |-> path, status |-> status,
     value |-> value, total |-> total]

ProgressMsg(w, value, total) == Msg("progress", w, 0, "", value, total)
FileMsg(w, path, status) == Msg("file_processed", w, path, status, 0, 0)
ErrorMsg(w) == Msg("error", w, 0, "", 0, 0)
FinishedMsg(w) == Msg("finished", w, 0, "", 0, 0)

----
\* Initial state: the widget as constructed, no worker yet.

NewWorker ==
    [pc |-> "new", i |-> 0, input_path |-> 0, total_files |-> 0,
     is_running |-> TRUE, output_dir |-> None, param |-> "a"]

NewHist ==
    [given |-> <<>>,        \* the list as it was at construction
     emitted |-> <<>>,      \* file_processed emitted: [path, status, invoked]
     progs |-> <<>>,        \* completed counts of the progress emitted
     given_dir |-> None,    \* the output folder it was constructed with
     given_param |-> "a",   \* the parameter value it was constructed with
     stop_at |-> <<>>,      \* <<i, pc>> when stop() was called
     handled |-> <<>>,      \* file_processed handled by the controller
     applied |-> <<>>,      \* completed counts handled by the controller
     fin |-> FALSE]         \* finished handled by the controller

NewVideoWorker ==
    [pc |-> "new", is_running |-> TRUE, process |-> "none", returncode |-> "",
     stderr |-> <<>>, status |-> "", input_path |-> None, output_dir |-> None, crf_value |-> "a"]

NewVideoHist ==
    [emitted |-> <<>>,      \* signals emitted: [type, status]
     handled |-> <<>>,      \* signals handled by the controller
     stop_pc |-> "",        \* where run() stood when stop() was called
     stop_process |-> "",   \* what stop() found: "none", "alive", "exited",
                            \* or "cleared": a handle that was gone when
                            \* poll() was to be called on it
     stop_fault |-> FALSE,  \* stop() raised out of its condition
     stop_ops |-> <<>>,     \* what stop() called on the process, in order
     expired |-> FALSE,     \* wait(timeout=2) raised TimeoutExpired
     launched |-> FALSE]    \* Popen returned a process

NewBgWorker == [pc |-> "new", is_running |-> TRUE, input_path |-> None]

NewBgHist ==
    [emitted |-> <<>>,      \* signals emitted: [type, after_stop]
     handled |-> <<>>,      \* signals handled by the controller
     stop_pc |-> "",        \* where run() stood when stop() was first called
     fin |-> FALSE]         \* finished handled by the controller

WidgetInit ==
    /\ tool \in AllTools
    /\ selected_files = <<>>
    /\ file_path_to_item_map = [p \in {} |-> "white"]
    /\ output_directory = None
    /\ param = "a"
    /\ worker = None
    /\ success_count = 0
    /\ fail_count = 0
    /\ progress_bar = [value |-> -1, maximum |-> 100, visible |-> FALSE]
    /\ is_ffmpeg_available \in (IF tool = "video" THEN BOOLEAN ELSE {FALSE})
    /\ ffmpeg_found \in (IF tool = "video" THEN BOOLEAN ELSE {FALSE})
    /\ input_exists \in (IF tool = "video" THEN BOOLEAN ELSE {FALSE})
    /\ buttons =
         IF tool = "video"
         THEN [start |-> FALSE, select_files |-> is_ffmpeg_available,
               clear_list |-> FALSE, output_dir |-> is_ffmpeg_available,
               params |-> is_ffmpeg_available]
         ELSE IF tool = "bg"
         THEN [start |-> FALSE, select_files |-> TRUE, clear_list |-> FALSE,
               output_dir |-> FALSE, params |-> FALSE]
         ELSE [start |-> FALSE, select_files |-> TRUE, clear_list |-> TRUE,
               output_dir |-> TRUE, params |-> TRUE]
    /\ dir_exists \in BOOLEAN
    /\ queue = <<>>
    /\ ws = [w \in Workers |-> NewWorker]
    /\ created = 0
    /\ events = 0
    /\ cancelled_count = 0
    /\ warned = FALSE
    /\ hist = [w \in Workers |-> NewHist]
    /\ input_video_path = None
    /\ status_label = ""
    /\ output_exists = FALSE
    /\ vws = [w \in Workers |-> NewVideoWorker]
    /\ vhist = [w \in Workers |-> NewVideoHist]
    /\ input_image_path = None
    /\ processed_image_data = None
    /\ progress_dialog = "none"
    /\ save_button = FALSE
    /\ bws = [w \in Workers |-> NewBgWorker]
    /\ bhist = [w \in Workers |-> NewBgHist]

\* No computation is followed on its own while a tool runs.
NoCalc == [op |-> "none", args |-> <<>>, out |-> <<>>, fs |-> <<>>]

Init ==
    /\ WidgetInit
    /\ calc = NoCalc

----
\* Control thread: the widget's slots

\* _update_convert_button_state / _update_compress_button_state /
\* _update_resize_button_state; running is
\* self.worker is not None and self.worker.isRunning().
update_button_state(files, outdir, running) ==
    [start |-> /\ files # <<>>
               /\ (tool = "conv" => outdir # None)
               /\ ~running,
     select_files |-> ~running,
     clear_list |-> files # <<>> /\ ~running,
     output_dir |-> ~running,
     params |-> ~running]

WorkerRunning == worker # None /\ isRunning(worker)

\* _select_files: the dialog returned files (a cancelled dialog changes nothing).
select_files(files) ==
    /\ tool \in Tools
    /\ buttons.select_files
    /\ events < MaxEvents
    /\ events' = events + 1
    /\ LET new_files == SelectSeq(files, LAMBDA f : NotInMap(file_path_to_item_map, f))
           all == selected_files \o new_files
       IN  /\ selected_files' = all
           /\ file_path_to_item_map' =
                [p \in DOMAIN file_path_to_item_map \cup Range(new_files) |->
                    IF p \in DOMAIN file_path_to_item_map
                    THEN file_path_to_item_map[p] ELSE "white"]
           /\ buttons' = update_button_state(all, output_directory, WorkerRunning)
    /\ UNCHANGED <<calc, tool, bg, video, output_directory, param, worker, success_count, fail_count,
                   progress_bar, dir_exists, queue, ws, created, cancelled_count, warned, hist>>

\* _clear_list
clear_list ==
    /\ tool \in Tools
    /\ buttons.clear_list
    /\ events < MaxEvents
    /\ events' = events + 1
    /\ selected_files' = <<>>
    /\ file_path_to_item_map' = [p \in {} |-> "white"]
    /\ buttons' = update_button_state(<<>>, output_directory, WorkerRunning)
    /\ UNCHANGED <<calc, tool, bg, video, output_directory, param, worker, success_count, fail_count,
                   progress_bar, dir_exists, queue, ws, created, cancelled_count, warned, hist>>

\* _select_output_dir: directory is Dir, or None when the dialog was cancelled.
select_output_dir(directory) ==
    /\ tool \in Tools
    /\ buttons.output_dir
    /\ events < MaxEvents
    /\ events' = events + 1
    /\ IF tool = "conv"
       THEN IF directory # None
            THEN /\ output_directory' = directory
                 /\ buttons' = update_button_state(selected_files, directory, WorkerRunning)
            ELSE UNCHANGED <<output_directory, buttons>>
       ELSE /\ output_directory' = directory
            /\ UNCHANGED buttons
    /\ UNCHANGED <<calc, tool, bg, video, selected_files, file_path_to_item_map, param, worker,
                   success_count, fail_count, progress_bar, dir_exists, queue, ws,
                   created, cancelled_count, warned, hist>>

\* The user edits a parameter widget (format combo, quality, width/height...).
edit_param(v) ==
    /\ buttons.params
    /\ events < MaxEvents
    /\ events' = events + 1
    /\ v # param
    /\ param' = v
    /\ UNCHANGED <<calc, tool, bg, video, selected_files, file_path_to_item_map, output_directory,
                   worker, success_count, fail_count, progress_bar, buttons,
                   dir_exists, queue, ws, created, cancelled_count, warned, hist>>

\* The precondition checks at the head of _start_conversion /
\* _start_compression / _start_resizing.
start_preconditions ==
    /\ selected_files # <<>>
    /\ (tool = "conv" => output_directory # None)

\* The worker's constructor: the list is kept by reference (input_paths),
\* the folder and the parameters by value.
construct ==
    [pc |-> "start", i |-> 0, input_path |-> 0, total_files |-> 0,
     is_running |-> TRUE, output_dir |-> output_directory, param |-> param]

\* The body of _start_conversion / _start_compression / _start_resizing
\* after the precondition checks.
start_run ==
    LET w == created + 1
    IN  /\ success_count' = 0
        /\ fail_count' = 0
        /\ cancelled_count' = 0
        /\ file_path_to_item_map' =
             [p \in DOMAIN file_path_to_item_map |-> "white"]
        /\ progress_bar' =
             [setMaximum(setValue(progress_bar, 0), Len(selected_files))
                EXCEPT !.visible = TRUE]
        /\ worker' = w
        /\ ws' = [ws EXCEPT ![w] = construct]
        /\ created' = w
        /\ hist' = [hist EXCEPT ![w].given = selected_files,
                                ![w].given_dir = output_directory,
                                ![w].given_param = param]
        \* conv and resize refresh the controls before the worker
        \* exists; comp does so again after worker.start().
        /\ buttons' =
             IF tool = "comp"
             THEN update_button_state(selected_files, output_directory, TRUE)
             ELSE update_button_state(selected_files, output_directory,
                                      WorkerRunning)
        /\ UNCHANGED <<calc, tool, bg, video, selected_files, output_directory, param,
                       dir_exists, queue, warned>>

\* _start_conversion / _start_compression / _start_resizing: a click on the
\* start control.
start ==
    /\ tool \in Tools
    /\ buttons.start
    /\ events < MaxEvents
    /\ events' = events + 1
    /\ IF ~start_preconditions
       THEN /\ warned' = TRUE
            /\ UNCHANGED <<calc, tool, bg, video, ctrl, dir_exists, queue, ws, created,
                           cancelled_count, hist>>
       ELSE start_run

\* The slot with its checks left out.
start_unchecked ==
    /\ tool \in Tools
    /\ ~buttons.start
    /\ ~start_preconditions
    /\ events < MaxEvents
    /\ events' = events + 1
    /\ start_run

\* The same slot called while the start control is disabled and a
\* precondition fails (the control is enabled only when they hold): the
\* head of the handler shows the warning box and returns.
start_rejected ==
    /\ tool \in Tools
    /\ ~buttons.start
    /\ ~start_preconditions
    /\ events < MaxEvents
    /\ events' = events + 1
    /\ warned' = TRUE
    /\ UNCHANGED <<calc, tool, bg, video, ctrl, dir_exists, queue, ws, created,
                   cancelled_count, hist>>

\* _update_progress
update_progress ==
    /\ queue # <<>>
    /\ Head(queue).type = "progress"
    /\ LET m == Head(queue)
       IN  /\ progress_bar' = setMaximum(setValue(progress_bar, m.value), m.total)
           /\ hist' = [hist EXCEPT ![m.w].applied = Append(@, m.value)]
    /\ queue' = Tail(queue)
    /\ UNCHANGED <<calc, tool, bg, video, selected_files, file_path_to_item_map, output_directory,
                   param, worker, success_count, fail_count, buttons, dir_exists,
                   ws, created, events, cancelled_count, warned>>

\* _handle_file_result
handle_file_result ==
    /\ queue # <<>>
    /\ Head(queue).type = "file_processed"
    /\ LET m == Head(queue)
           kind == OutcomeKind(tool, m.status)
       IN  /\ IF m.path \in DOMAIN file_path_to_item_map
              THEN /\ file_path_to_item_map' =
                        [file_path_to_item_map EXCEPT ![m.path] = Colour(kind)]
                   /\ success_count' =
                        IF kind = "Success" THEN success_count + 1 ELSE success_count
                   /\ fail_count' =
                        IF kind = "Failure" THEN fail_count + 1 ELSE fail_count
                   /\ cancelled_count' =
                        IF kind = "Cancelled" THEN cancelled_count + 1
                        ELSE cancelled_count
              ELSE UNCHANGED <<file_path_to_item_map, success_count, fail_count,
                               cancelled_count>>
           /\ hist' = [hist EXCEPT ![m.w].handled =
                          Append(@, [path |-> m.path, status |-> m.status])]
    /\ queue' = Tail(queue)
    /\ UNCHANGED <<calc, tool, bg, video, selected_files, output_directory, param, worker,
                   progress_bar, buttons, dir_exists, ws, created, events,
                   warned>>

\* _handle_error: a message box, nothing else.
handle_error ==
    /\ queue # <<>>
    /\ Head(queue).type = "error"
    /\ queue' = Tail(queue)
    /\ UNCHANGED <<calc, tool, bg, video, ctrl, dir_exists, ws, created, events, cancelled_count, warned, hist>>

\* _on_worker_finished without the refresh of the controls.
on_worker_finished_no_refresh ==
    /\ queue # <<>>
    /\ Head(queue).type = "finished"
    /\ progress_bar' = [progress_bar EXCEPT !.visible = FALSE]
    /\ worker' = None
    /\ buttons' = buttons
    /\ hist' = [hist EXCEPT ![Head(queue).w].fin = TRUE]
    /\ queue' = Tail(queue)
    /\ UNCHANGED <<calc, tool, bg, video, selected_files, file_path_to_item_map, output_directory,
                   param, success_count, fail_count, dir_exists, ws, created,
                   events, cancelled_count, warned>>

\* _on_worker_finished
on_worker_finished ==
    /\ queue # <<>>
    /\ Head(queue).type = "finished"
    /\ progress_bar' = [progress_bar EXCEPT !.visible = FALSE]
    /\ worker' = None
    /\ buttons' = update_button_state(selected_files, output_directory, FALSE)
    /\ hist' = [hist EXCEPT ![Head(queue).w].fin = TRUE]
    /\ queue' = Tail(queue)
    /\ UNCHANGED <<calc, tool, bg, video, selected_files, file_path_to_item_map, output_directory,
                   param, success_count, fail_count, dir_exists, ws, created,
                   events, cancelled_count, warned>>

----
\* Worker thread: ImageConversionWorker / ImageCompressionWorker /
\* ImageResizingWorker

\* emit with the newest signal delivered first.
emit_lifo(msgs) ==
    /\ Len(queue) + Len(msgs) <= MaxQueue
    /\ queue' = msgs \o queue

\* Signal.emit on a connection across threads: the calls are queued to the
\* control thread in emission order.
emit(msgs) ==
    /\ Len(queue) + Len(msgs) <= MaxQueue
    /\ queue' = queue \o msgs

\* not self._is_running
cancel_requested(w) == ~ws[w].is_running

\* run() that sets the flag to running again when it begins.
run_begin_rearms(w) ==
    /\ ws[w].pc = "start"
    /\ IF input_paths(w) = <<>> \/ (tool = "conv" /\ ws[w].output_dir = None)
       THEN /\ emit(<<ErrorMsg(w), FinishedMsg(w)>>)
            /\ ws' = [ws EXCEPT ![w].pc = "done", ![w].is_running = TRUE]
            /\ UNCHANGED hist
       ELSE LET total_files == Len(input_paths(w))
            IN  /\ emit(<<ProgressMsg(w, 0, total_files)>>)
                /\ ws' = [ws EXCEPT ![w].pc = "top", ![w].total_files = total_files,
                                    ![w].is_running = TRUE]
                /\ hist' = [hist EXCEPT ![w].progs = Append(@, 0)]
    /\ UNCHANGED <<calc, tool, bg, video, ctrl, dir_exists, created, events, cancelled_count, warned>>

\* run() up to the loop: the guards, then progress.emit(0, total_files).
\* QThread emits finished once run() has returned.
run_begin(w) ==
    /\ ws[w].pc = "start"
    /\ IF input_paths(w) = <<>> \/ (tool = "conv" /\ ws[w].output_dir = None)
       THEN /\ emit(<<ErrorMsg(w), FinishedMsg(w)>>)
            /\ ws' = [ws EXCEPT ![w].pc = "done"]
            /\ UNCHANGED hist
       ELSE LET total_files == Len(input_paths(w))
            IN  /\ emit(<<ProgressMsg(w, 0, total_files)>>)
                /\ ws' = [ws EXCEPT ![w].pc = "top", ![w].total_files = total_files]
                /\ hist' = [hist EXCEPT ![w].progs = Append(@, 0)]
    /\ UNCHANGED <<calc, tool, bg, video, ctrl, dir_exists, created, events, cancelled_count, warned>>

\* self.output_dir and not os.path.exists(self.output_dir), in the
\* compression and resizing workers.
needs_makedirs(w) ==
    tool \in {"comp", "resize"} /\ ws[w].output_dir # None /\ ~dir_exists

\* loop_step of a worker that waits, instead of going on, once stop() was
\* called.
loop_step_waits(w) ==
    /\ ~cancel_requested(w)
    /\ ws[w].pc = "top"
    /\ LET i == ws[w].i
       IN  IF i >= Len(input_paths(w))
           THEN /\ emit(<<FinishedMsg(w)>>)
                /\ ws' = [ws EXCEPT ![w].pc = "done"]
                /\ UNCHANGED hist
           ELSE LET input_path == input_paths(w)[i + 1]
                IN  IF cancel_requested(w)
                    THEN /\ emit(<<FileMsg(w, input_path, Cancelled)>>)
                         /\ ws' = [ws EXCEPT ![w].i = i + 1]
                         /\ hist' = [hist EXCEPT ![w].emitted = Append(@,
                                [path |-> input_path, status |-> Cancelled,
                                 invoked |-> FALSE])]
                    ELSE /\ ws' = [ws EXCEPT
                                ![w].pc = IF needs_makedirs(w) THEN "mk" ELSE "op",
                                ![w].input_path = input_path]
                         /\ UNCHANGED <<queue, hist>>
    /\ UNCHANGED <<calc, tool, bg, video, ctrl, dir_exists, created, events, cancelled_count, warned>>

\* The head of one loop iteration: the for statement takes the next element
\* of the list (or ends the loop), then the cancellation check, then the
\* look whether the output folder is missing.
loop_step(w) ==
    /\ ws[w].pc = "top"
    /\ LET i == ws[w].i
       IN  IF i >= Len(input_paths(w))
           THEN /\ emit(<<FinishedMsg(w)>>)
                /\ ws' = [ws EXCEPT ![w].pc = "done"]
                /\ UNCHANGED hist
           ELSE LET input_path == input_paths(w)[i + 1]
                IN  IF cancel_requested(w)
                    THEN /\ emit(<<FileMsg(w, input_path, Cancelled)>>)
                         /\ ws' = [ws EXCEPT ![w].i = i + 1]
                         /\ hist' = [hist EXCEPT ![w].emitted = Append(@,
                                [path |-> input_path, status |-> Cancelled,
                                 invoked |-> FALSE])]
                    ELSE /\ ws' = [ws EXCEPT
                                ![w].pc = IF needs_makedirs(w) THEN "mk" ELSE "op",
                                ![w].input_path = input_path]
                         /\ UNCHANGED <<queue, hist>>
    /\ UNCHANGED <<calc, tool, bg, video, ctrl, dir_exists, created, events, cancelled_count, warned>>

\* makedirs whose failure ends the run: the item is reported, then run()
\* returns.
makedirs_aborts(w, ok) ==
    /\ ws[w].pc = "mk"
    /\ ok => ~dir_exists
    /\ IF ok
       THEN /\ dir_exists' = TRUE
            /\ ws' = [ws EXCEPT ![w].pc = "op"]
            /\ UNCHANGED <<queue, hist>>
       ELSE /\ emit(<<FileMsg(w, ws[w].input_path, MkdirErrorStatus),
                      FinishedMsg(w)>>)
            /\ ws' = [ws EXCEPT ![w].pc = "done"]
            /\ hist' = [hist EXCEPT
                   ![w].emitted = Append(@,
                       [path |-> ws[w].input_path, status |-> MkdirErrorStatus,
                        invoked |-> FALSE])]
            /\ UNCHANGED dir_exists
    /\ UNCHANGED <<calc, tool, bg, video, ctrl, created, events, cancelled_count, warned>>

\* os.makedirs(self.output_dir): it creates the folder, or raises OSError
\* (also when the folder has appeared meanwhile) and the item is reported
\* as an error, with progress, without another look at the flag.
makedirs(w, ok) ==
    /\ ws[w].pc = "mk"
    /\ ok => ~dir_exists
    /\ IF ok
       THEN /\ dir_exists' = TRUE
            /\ ws' = [ws EXCEPT ![w].pc = "op"]
            /\ UNCHANGED <<queue, hist>>
       ELSE /\ emit(<<FileMsg(w, ws[w].input_path, MkdirErrorStatus),
                      ProgressMsg(w, ws[w].i + 1, ws[w].total_files)>>)
            /\ ws' = [ws EXCEPT ![w].pc = "top", ![w].i = @ + 1]
            /\ hist' = [hist EXCEPT
                   ![w].emitted = Append(@,
                       [path |-> ws[w].input_path, status |-> MkdirErrorStatus,
                        invoked |-> FALSE]),
                   ![w].progs = Append(@, ws[w].i + 1)]
            /\ UNCHANGED dir_exists
    /\ UNCHANGED <<calc, tool, bg, video, ctrl, created, events, cancelled_count, warned>>

\* What Image.open ... img.save can end in for this item.
op_results(w) ==
    {ErrorStatus} \cup
    (IF tool = "conv" /\ ~dir_exists THEN {} ELSE {SuccessStatus(tool)})

\* report without the second look at the flag.
report_noflag(w, status) ==
    <<FileMsg(w, ws[w].input_path, status),
      ProgressMsg(w, ws[w].i + 1, ws[w].total_files)>>

\* report with progress for a cancelled item too.
report_always_progress(w, status) ==
    IF cancel_requested(w)
    THEN <<FileMsg(w, ws[w].input_path, Cancelled),
           ProgressMsg(w, ws[w].i + 1, ws[w].total_files)>>
    ELSE <<FileMsg(w, ws[w].input_path, status),
           ProgressMsg(w, ws[w].i + 1, ws[w].total_files)>>

\* The tail of the iteration: the operation has returned with status; the
\* flag is read again and the outcome emitted.
report(w, status) ==
    IF cancel_requested(w)
    THEN <<FileMsg(w, ws[w].input_path, Cancelled)>>
    ELSE <<FileMsg(w, ws[w].input_path, status),
           ProgressMsg(w, ws[w].i + 1, ws[w].total_files)>>

op_finish(w, status) ==
    /\ ws[w].pc = "op"
    /\ status \in op_results(w)
    /\ emit(report(w, status))
    /\ ws' = [ws EXCEPT ![w].pc = "top", ![w].i = @ + 1]
    /\ hist' = [hist EXCEPT
            ![w].emitted = Append(@,
                [path |-> report(w, status)[1].path,
                 status |-> report(w, status)[1].status,
                 invoked |-> TRUE]),
            ![w].progs = IF Len(report(w, status)) = 2
                          THEN Append(@, report(w, status)[2].value) ELSE @]
    /\ UNCHANGED <<calc, tool, bg, video, ctrl, dir_exists, created, events, cancelled_count, warned>>

\* stop that leaves the flag set.
stop_noflag(w) ==
    /\ worker = w
    /\ events < MaxEvents
    /\ events' = events + 1
    /\ isRunning(w)
    /\ hist[w].stop_at = <<>>
    /\ hist' = [hist EXCEPT ![w].stop_at = <<ws[w].i, ws[w].pc>>]
    /\ UNCHANGED <<calc, tool, bg, video, ctrl, dir_exists, queue, ws, created, cancelled_count, warned>>

\* stop(): sets the flag, nothing else.
stop(w) ==
    /\ worker = w
    /\ events < MaxEvents
    /\ events' = events + 1
    /\ isRunning(w)
    /\ ws[w].is_running
    /\ ws' = [ws EXCEPT ![w].is_running = FALSE]
    /\ hist' = [hist EXCEPT ![w].stop_at = <<ws[w].i, ws[w].pc>>]
    /\ UNCHANGED <<calc, tool, bg, video, ctrl, dir_exists, queue, created, cancelled_count, warned>>

----
\* Video compressor: the widget's slots

VideoStarted(w) == Msg("started", w, 0, "", 0, 0)
VideoFinished(w, status) == Msg("video_finished", w, 0, status, 0, 0)
VideoError(w, status) == Msg("video_error", w, 0, status, 0, 0)

\* QThread.isRunning() of a video worker.
videoIsRunning(w) == vws[w].pc \notin {"new", "done"}

VideoWorkerRunning == worker # None /\ videoIsRunning(worker)

\* _update_compress_button_state of the video widget
video_update_compress_button_state(path, outdir, running) ==
    [start |-> /\ is_ffmpeg_available
               /\ path # None
               /\ outdir # None
               /\ ~running,
     select_files |-> ~running /\ is_ffmpeg_available,
     clear_list |-> FALSE,
     output_dir |-> ~running /\ is_ffmpeg_available,
     params |-> ~running /\ is_ffmpeg_available]

\* _select_file: the dialog returned a file.
video_select_file ==
    /\ tool = "video"
    /\ buttons.select_files
    /\ events < MaxEvents
    /\ events' = events + 1
    /\ input_video_path' = VideoFile
    /\ status_label' = ""
    /\ buttons' = video_update_compress_button_state(VideoFile, output_directory,
                                                     VideoWorkerRunning)
    /\ UNCHANGED <<calc, tool, bg, batch, output_directory, param, worker, dir_exists, queue,
                   created, is_ffmpeg_available, ffmpeg_found, input_exists,
                   output_exists, vws, vhist>>

\* _select_output_dir of the video widget: a cancelled dialog changes nothing.
video_select_output_dir(directory) ==
    /\ tool = "video"
    /\ buttons.output_dir
    /\ events < MaxEvents
    /\ events' = events + 1
    /\ IF directory # None
       THEN /\ output_directory' = directory
            /\ buttons' = video_update_compress_button_state(
                              input_video_path, directory, VideoWorkerRunning)
       ELSE UNCHANGED <<output_directory, buttons>>
    /\ UNCHANGED <<calc, tool, bg, batch, video, param, worker, dir_exists, queue, created>>

\* VideoCompressionWorker.__init__
video_construct ==
    [pc |-> "start", is_running |-> TRUE, process |-> "none", returncode |-> "",
     stderr |-> <<>>, status |-> "", input_path |-> input_video_path,
     output_dir |-> output_directory, crf_value |-> param]

\* _start_compression of the video widget: a click on Compress Video.
video_start_compression ==
    /\ tool = "video"
    /\ buttons.start
    /\ events < MaxEvents
    /\ events' = events + 1
    /\ IF input_video_path = None \/ output_directory = None
       THEN UNCHANGED <<calc, tool, bg, batch, video, ctrl, dir_exists, queue, created>>
       ELSE LET w == created + 1
            IN  /\ status_label' = "Preparing..."
                /\ worker' = w
                /\ vws' = [vws EXCEPT ![w] = video_construct]
                /\ created' = w
                \* the state is refreshed before the worker exists and again
                \* after worker.start()
                /\ buttons' = video_update_compress_button_state(
                                  input_video_path, output_directory, TRUE)
                /\ UNCHANGED <<calc, tool, bg, batch, output_directory, param, dir_exists,
                               queue, input_video_path, is_ffmpeg_available,
                               ffmpeg_found, input_exists, output_exists, vhist>>

VideoHandled(m) ==
    [vhist EXCEPT ![m.w].handled = Append(@, [type |-> m.type, status |-> m.status])]

\* _handle_worker_started
video_handle_worker_started ==
    /\ queue # <<>>
    /\ Head(queue).type = "started"
    /\ status_label' = "Processing..."
    /\ vhist' = VideoHandled(Head(queue))
    /\ queue' = Tail(queue)
    /\ UNCHANGED <<calc, tool, bg, batch, ctrl, dir_exists, created, events,
                   input_video_path, is_ffmpeg_available, ffmpeg_found,
                   input_exists, output_exists, vws>>

\* _handle_worker_finished, then _ensure_cleanup: both are connected to the
\* worker's finished signal.
video_handle_worker_finished ==
    /\ queue # <<>>
    /\ Head(queue).type = "video_finished"
    /\ status_label' = Head(queue).status
    /\ worker' = None
    /\ buttons' = video_update_compress_button_state(
                      input_video_path, output_directory, FALSE)
    /\ vhist' = VideoHandled(Head(queue))
    /\ queue' = Tail(queue)
    /\ UNCHANGED <<calc, tool, bg, batch, output_directory, param, dir_exists, created,
                   events, input_video_path, is_ffmpeg_available, ffmpeg_found,
                   input_exists, output_exists, vws>>

\* _handle_error of the video widget
video_handle_error ==
    /\ queue # <<>>
    /\ Head(queue).type = "video_error"
    /\ status_label' = Head(queue).status
    /\ worker' = None
    /\ buttons' = video_update_compress_button_state(
                      input_video_path, output_directory, FALSE)
    /\ vhist' = VideoHandled(Head(queue))
    /\ queue' = Tail(queue)
    /\ UNCHANGED <<calc, tool, bg, batch, output_directory, param, dir_exists, created,
                   events, input_video_path, is_ffmpeg_available, ffmpeg_found,
                   input_exists, output_exists, vws>>

----
\* Video compressor: VideoCompressionWorker

VideoEmitted(w, msgs) ==
    [k \in 1..Len(msgs) |-> [type |-> msgs[k].type, status |-> msgs[k].status]]

\* video_return with the signals sent in the opposite order.
video_return_reversed(w, msgs) ==
    /\ emit([k \in 1..Len(msgs) |-> msgs[Len(msgs) + 1 - k]])
    /\ vws' = [vws EXCEPT ![w].pc = "done"]
    /\ vhist' = [vhist EXCEPT ![w].emitted = @ \o VideoEmitted(w, msgs)]

\* The worker emits msgs and run() returns.
video_return(w, msgs) ==
    /\ emit(msgs)
    /\ vws' = [vws EXCEPT ![w].pc = "done"]
    /\ vhist' = [vhist EXCEPT ![w].emitted = @ \o VideoEmitted(w, msgs)]

\* run(): the initial checks, the search for ffmpeg and the creation of the
\* output folder.
video_run_begin(w, makedirs_ok) ==
    /\ vws[w].pc = "start"
    /\ IF vws[w].input_path = None \/ ~input_exists
       THEN /\ video_return(w, <<VideoError(w, "Input video not found"),
                                 VideoFinished(w, "Error: Input not found")>>)
            /\ UNCHANGED dir_exists
       ELSE IF vws[w].output_dir = None
       THEN /\ video_return(w, <<VideoError(w, "Output directory not specified."),
                                 VideoFinished(w, "Error: No output directory")>>)
            /\ UNCHANGED dir_exists
       ELSE IF ~ffmpeg_found
       THEN /\ video_return(w, <<VideoError(w, "FFmpeg executable not found"),
                                 VideoFinished(w, "Error: FFmpeg not found")>>)
            /\ UNCHANGED dir_exists
       ELSE IF ~dir_exists /\ ~makedirs_ok
       THEN /\ video_return(w, <<VideoError(w, "Cannot create output directory"),
                                 VideoFinished(w, "Error: Cannot create output dir")>>)
            /\ UNCHANGED dir_exists
       ELSE /\ dir_exists' = TRUE
            /\ vws' = [vws EXCEPT ![w].pc = "try",
                                  ![w].status = "Error: Unknown failure"]
            /\ UNCHANGED <<queue, vhist>>
    /\ UNCHANGED <<calc, tool, bg, batch, ctrl, created, events, input_video_path,
                   is_ffmpeg_available, status_label, ffmpeg_found, input_exists,
                   output_exists>>

\* self.started.emit(), the first statement of the try block.
video_emit_started(w) ==
    /\ vws[w].pc = "try"
    /\ emit(<<VideoStarted(w)>>)
    /\ vws' = [vws EXCEPT ![w].pc = "popen"]
    /\ vhist' = [vhist EXCEPT ![w].emitted = @ \o VideoEmitted(w, <<VideoStarted(w)>>)]
    /\ UNCHANGED <<calc, tool, bg, batch, ctrl, dir_exists, created, events, input_video_path,
                   is_ffmpeg_available, status_label, ffmpeg_found, input_exists,
                   output_exists>>

\* subprocess.Popen(command): a process, or an exception, which the except
\* branches turn into an error signal and an error status.
video_popen(w, ok) ==
    /\ vws[w].pc = "popen"
    /\ IF ok
       THEN /\ vws' = [vws EXCEPT ![w].pc = "communicate", ![w].process = "alive"]
            /\ vhist' = [vhist EXCEPT ![w].launched = TRUE]
            /\ UNCHANGED queue
       ELSE /\ emit(<<VideoError(w, "Error: Failed to run ffmpeg")>>)
            /\ vws' = [vws EXCEPT ![w].pc = "finally",
                                  ![w].status = "Error: Failed to run ffmpeg"]
            /\ vhist' = [vhist EXCEPT ![w].emitted =
                            @ \o VideoEmitted(w, <<VideoError(w, "Error: Failed to run ffmpeg")>>)]
    /\ UNCHANGED <<calc, tool, bg, batch, ctrl, dir_exists, created, events, input_video_path,
                   is_ffmpeg_available, status_label, ffmpeg_found, input_exists,
                   output_exists>>

\* What ffmpeg may print on its diagnostic stream, as a text of words:
\* nothing that matters, or a word in one of these spellings.
StderrTexts == {<<>>, <<"Error">>, <<"error">>, <<"FAILED">>, <<"failed">>}

\* stderr.lower()
stderr_lower(stderr) ==
    [k \in 1..Len(stderr) |->
        CASE stderr[k] = "Error" -> "error"
          [] stderr[k] = "FAILED" -> "failed"
          [] OTHER -> stderr[k]]

\* "Error" in stderr or "failed" in stderr.lower()
reports_issues(stderr) ==
    \/ \E k \in 1..Len(stderr) : stderr[k] = "Error"
    \/ \E k \in 1..Len(stderr) : stderr_lower(stderr)[k] = "failed"

\* The status from the exit code alone.
result_status_by_code(return_code, stderr) ==
    IF return_code = "ok" THEN "Success" ELSE "Error: FFmpeg failed"

\* The status of a run that was not cancelled, from the exit code and the
\* diagnostic stream.
result_status(return_code, stderr) ==
    IF return_code = "ok"
    THEN IF reports_issues(stderr)
         THEN "Error: FFmpeg reported issues"
         ELSE "Success"
    ELSE "Error: FFmpeg failed"

\* The ffmpeg process ends by itself: exit code 0 ("ok") or another exit
\* code ("fail", which may or may not leave an output file), and what it
\* printed on stderr.
video_process_exit(w, rc, stderr, wrote) ==
    /\ vws[w].pc = "communicate"
    /\ vws[w].process = "alive"
    /\ vws' = [vws EXCEPT ![w].process = "exited", ![w].returncode = rc,
                          ![w].stderr = stderr]
    /\ output_exists' = IF rc = "fail" THEN (output_exists \/ wrote) ELSE TRUE
    /\ UNCHANGED <<calc, tool, bg, batch, ctrl, dir_exists, queue, created, events,
                   input_video_path, is_ffmpeg_available, status_label,
                   ffmpeg_found, input_exists, vhist>>

\* communicate() returns, self._process = None, and the result is turned
\* into a status; a cancelled run tries to delete the output file.
video_handle_results(w, remove_ok) ==
    /\ vws[w].pc = "communicate"
    /\ vws[w].process = "exited"
    /\ IF ~vws[w].is_running
       THEN /\ vws' = [vws EXCEPT ![w].pc = "finally", ![w].process = "none",
                                  ![w].status = Cancelled]
            /\ output_exists' = (output_exists /\ ~remove_ok)
       ELSE /\ vws' = [vws EXCEPT ![w].pc = "finally", ![w].process = "none",
                         ![w].status =
                            result_status(vws[w].returncode, vws[w].stderr)]
            /\ UNCHANGED output_exists
    /\ UNCHANGED <<calc, tool, bg, batch, ctrl, dir_exists, queue, created, events,
                   input_video_path, is_ffmpeg_available, status_label,
                   ffmpeg_found, input_exists, vhist>>

\* The finally block without its else branch: a cancelled run ends silently.
video_finally_silent(w) ==
    /\ vws[w].pc = "finally"
    /\ video_return(w, IF vws[w].is_running
                       THEN <<VideoFinished(w, vws[w].status)>> ELSE <<>>)
    /\ UNCHANGED <<calc, tool, bg, batch, ctrl, dir_exists, created, events, input_video_path,
                   is_ffmpeg_available, status_label, ffmpeg_found, input_exists,
                   output_exists>>

\* The finally block: the flag is read again and finished is emitted.
video_finally(w) ==
    /\ vws[w].pc = "finally"
    /\ video_return(w, <<VideoFinished(w, IF vws[w].is_running
                                          THEN vws[w].status ELSE Cancelled)>>)
    /\ UNCHANGED <<calc, tool, bg, batch, ctrl, dir_exists, created, events, input_video_path,
                   is_ffmpeg_available, status_label, ffmpeg_found, input_exists,
                   output_exists>>

\* What stop() calls on a process it found alive: terminate(), then
\* wait(timeout=2), then kill() if the wait raised TimeoutExpired.
stop_calls(expired) ==
    IF expired THEN <<"terminate", "wait", "kill">> ELSE <<"terminate", "wait">>

\* stop() that kills a live process at once.
video_stop_kills(w, partial, exits_in_time, cleared) ==
    /\ worker = w
    /\ events < MaxEvents
    /\ events' = events + 1
    /\ videoIsRunning(w)
    /\ vws[w].is_running
    /\ cleared => vws[w].process # "none"
    /\ LET found == IF cleared THEN "cleared" ELSE vws[w].process
       IN  /\ vws' = [vws EXCEPT ![w].is_running = FALSE,
                         ![w].process = IF found = "alive" THEN "exited" ELSE @,
                         ![w].returncode = IF found = "alive" THEN "fail" ELSE @]
           /\ output_exists' = IF found = "alive"
                               THEN (output_exists \/ partial) ELSE output_exists
           /\ vhist' = [vhist EXCEPT
                  ![w].stop_pc = vws[w].pc,
                  ![w].stop_process = found,
                  ![w].stop_fault = cleared,
                  ![w].stop_ops = IF found = "alive" THEN <<"kill">> ELSE <<>>,
                  ![w].expired = found = "alive" /\ ~exits_in_time]
    /\ UNCHANGED <<calc, tool, bg, batch, ctrl, dir_exists, queue, created,
                   input_video_path, is_ffmpeg_available, status_label,
                   ffmpeg_found, input_exists>>

\* stop() of the video worker: the flag; then, if there is a process and
\* poll() says it is alive, terminate(), wait(timeout=2) and, if the
\* process has not exited when the wait expires, kill().  A terminated or
\* killed ffmpeg may leave a partial file.
\* The condition reads self._process twice, outside the try and without a
\* lock, while run() sets it to None once communicate() has returned: when
\* the first read finds a process, the second may find None (cleared), and
\* the call of poll() on it raises out of stop() before anything is done
\* to the process.
video_stop(w, partial, exits_in_time, cleared) ==
    /\ worker = w
    /\ events < MaxEvents
    /\ events' = events + 1
    /\ videoIsRunning(w)
    /\ vws[w].is_running
    /\ cleared => vws[w].process # "none"
    /\ LET found == IF cleared THEN "cleared" ELSE vws[w].process
       IN  /\ vws' = [vws EXCEPT ![w].is_running = FALSE,
                         ![w].process = IF found = "alive" THEN "exited" ELSE @,
                         ![w].returncode = IF found = "alive" THEN "fail" ELSE @]
           /\ output_exists' = IF found = "alive"
                               THEN (output_exists \/ partial) ELSE output_exists
           /\ vhist' = [vhist EXCEPT
                  ![w].stop_pc = vws[w].pc,
                  ![w].stop_process = found,
                  ![w].stop_fault = cleared,
                  ![w].stop_ops = IF found = "alive"
                                  THEN stop_calls(~exits_in_time) ELSE <<>>,
                  ![w].expired = found = "alive" /\ ~exits_in_time]
    /\ UNCHANGED <<calc, tool, bg, batch, ctrl, dir_exists, queue, created,
                   input_video_path, is_ffmpeg_available, status_label,
                   ffmpeg_found, input_exists>>

----
\* Background remover: BackgroundRemoverWidget

ResultReady(w, data) == Msg("result_ready", w, data, "", 0, 0)
BgError(w) == Msg("bg_error", w, 0, "", 0, 0)
BgFinished(w) == Msg("bg_finished", w, 0, "", 0, 0)

\* QThread.isRunning() of a background worker.
bgIsRunning(w) == bws[w].pc \notin {"new", "done"}

BgButtons(select, remove) ==
    [start |-> remove, select_files |-> select, clear_list |-> FALSE,
     output_dir |-> FALSE, params |-> FALSE]

\* _set_buttons_enabled
bg_set_buttons_enabled(enabled) ==
    BgButtons(enabled, enabled /\ input_image_path # None)

\* BackgroundRemovalWorker.stop() as _cancel_processing calls it: only on a
\* worker the widget holds and whose thread runs.
bg_stop ==
    IF worker # None /\ bgIsRunning(worker)
    THEN /\ bws' = [bws EXCEPT ![worker].is_running = FALSE]
         /\ bhist' = [bhist EXCEPT ![worker].stop_pc =
                          IF @ = "" THEN bws[worker].pc ELSE @]
    ELSE UNCHANGED <<bws, bhist>>

\* A selection that keeps the processed image of the image before.
bg_select_image_keeps(file, loads) ==
    /\ tool = "bg"
    /\ buttons.select_files
    /\ progress_dialog # "shown"
    /\ events < MaxEvents
    /\ events' = events + 1
    /\ IF file = None
       THEN UNCHANGED <<input_image_path, processed_image_data, save_button, buttons>>
       ELSE IF ~loads
       THEN /\ input_image_path' = None
            /\ processed_image_data' = None
            /\ save_button' = FALSE
            /\ buttons' = [buttons EXCEPT !.start = FALSE]
       ELSE /\ input_image_path' = file
            /\ UNCHANGED processed_image_data
            /\ save_button' = FALSE
            /\ buttons' = [buttons EXCEPT !.start = TRUE]
    /\ UNCHANGED <<calc, tool, batch, video, output_directory, param, worker, dir_exists,
                   queue, created, progress_dialog, bws, bhist>>

\* _select_image: the dialog returned file (None when cancelled); an image
\* that cannot be loaded resets the views.
bg_select_image(file, loads) ==
    /\ tool = "bg"
    /\ buttons.select_files
    /\ progress_dialog # "shown"
    /\ events < MaxEvents
    /\ events' = events + 1
    /\ IF file = None
       THEN UNCHANGED <<input_image_path, processed_image_data, save_button, buttons>>
       ELSE IF ~loads
       THEN /\ input_image_path' = None
            /\ processed_image_data' = None
            /\ save_button' = FALSE
            /\ buttons' = [buttons EXCEPT !.start = FALSE]
       ELSE /\ input_image_path' = file
            /\ processed_image_data' = None
            /\ save_button' = FALSE
            /\ buttons' = [buttons EXCEPT !.start = TRUE]
    /\ UNCHANGED <<calc, tool, batch, video, output_directory, param, worker, dir_exists,
                   queue, created, progress_dialog, bws, bhist>>

\* BackgroundRemovalWorker.__init__
bg_construct == [pc |-> "start", is_running |-> TRUE, input_path |-> input_image_path]

\* _remove_background: a click on Remove Background.
bg_remove_background ==
    /\ tool = "bg"
    /\ buttons.start
    /\ progress_dialog # "shown"
    /\ events < MaxEvents
    /\ events' = events + 1
    /\ IF input_image_path = None \/ (worker # None /\ bgIsRunning(worker))
       THEN UNCHANGED <<buttons, worker, bws, created, progress_dialog>>
       ELSE LET w == created + 1
            IN  /\ buttons' = bg_set_buttons_enabled(FALSE)
                /\ worker' = w
                /\ bws' = [bws EXCEPT ![w] = bg_construct]
                /\ created' = w
                /\ progress_dialog' = "shown"
    /\ UNCHANGED <<calc, tool, batch, video, output_directory, param, dir_exists, queue,
                   input_image_path, processed_image_data, save_button, bhist>>

\* A relay that also lets go of the worker.
bg_cancel_processing_releases ==
    /\ tool = "bg"
    /\ progress_dialog = "shown"
    /\ events < MaxEvents
    /\ events' = events + 1
    /\ bg_stop
    /\ progress_dialog' = "hidden"
    /\ worker' = None
    /\ UNCHANGED <<calc, tool, batch, video, output_directory, param, buttons,
                   dir_exists, queue, created, input_image_path,
                   processed_image_data, save_button>>

\* _cancel_processing after a click on the progress dialog's Cancel button.
bg_cancel_processing ==
    /\ tool = "bg"
    /\ progress_dialog = "shown"
    /\ events < MaxEvents
    /\ events' = events + 1
    /\ bg_stop
    /\ progress_dialog' = "hidden"
    /\ UNCHANGED <<calc, tool, batch, video, output_directory, param, worker, buttons,
                   dir_exists, queue, created, input_image_path,
                   processed_image_data, save_button>>

BgHandled(m) == [bhist EXCEPT ![m.w].handled = Append(@, m.type)]

\* _handle_result; a result that cannot be loaded into a pixmap goes to
\* _handle_error.
bg_handle_result(loads) ==
    /\ queue # <<>>
    /\ Head(queue).type = "result_ready"
    /\ processed_image_data' = Head(queue).path
    /\ IF loads
       THEN /\ save_button' = TRUE
            /\ UNCHANGED progress_dialog
       ELSE /\ progress_dialog' = IF progress_dialog = "none" THEN "none" ELSE "hidden"
            /\ UNCHANGED save_button
    /\ bhist' = BgHandled(Head(queue))
    /\ queue' = Tail(queue)
    /\ UNCHANGED <<calc, tool, batch, video, output_directory, param, worker, buttons,
                   dir_exists, created, events, input_image_path, bws>>

\* _handle_error of the background remover
bg_handle_error ==
    /\ queue # <<>>
    /\ Head(queue).type = "bg_error"
    /\ progress_dialog' = IF progress_dialog = "none" THEN "none" ELSE "hidden"
    /\ bhist' = BgHandled(Head(queue))
    /\ queue' = Tail(queue)
    /\ UNCHANGED <<calc, tool, batch, video, output_directory, param, worker, buttons,
                   dir_exists, created, events, input_image_path,
                   processed_image_data, save_button, bws>>

\* _on_worker_finished of the background remover
bg_on_worker_finished ==
    /\ queue # <<>>
    /\ Head(queue).type = "bg_finished"
    /\ progress_dialog' = "none"
    /\ buttons' = BgButtons(TRUE, input_image_path # None)
    /\ worker' = None
    /\ bhist' = [BgHandled(Head(queue)) EXCEPT ![Head(queue).w].fin = TRUE]
    /\ queue' = Tail(queue)
    /\ UNCHANGED <<calc, tool, batch, video, output_directory, param, dir_exists, created,
                   events, input_image_path, processed_image_data, save_button, bws>>

----
\* Background remover: BackgroundRemovalWorker

\* The worker emits msgs and run() returns; QThread then emits finished.
bg_return(w, msgs) ==
    /\ emit(msgs \o <<BgFinished(w)>>)
    /\ bws' = [bws EXCEPT ![w].pc = "done"]
    /\ bhist' = [bhist EXCEPT ![w].emitted = @ \o
                    [k \in 1..Len(msgs) |->
                        [type |-> msgs[k].type, after_stop |-> ~bws[w].is_running]]]

\* run(): the first look at the flag.
bg_run_begin(w) ==
    /\ bws[w].pc = "start"
    /\ IF ~bws[w].is_running
       THEN bg_return(w, <<>>)
       ELSE /\ bws' = [bws EXCEPT ![w].pc = "work"]
            /\ UNCHANGED <<queue, bhist>>
    /\ UNCHANGED <<calc, tool, batch, video, ctrl, dir_exists, created, events,
                   input_image_path, processed_image_data, progress_dialog,
                   save_button>>

\* The file is read and rembg.remove returns, or either raises.
bg_work(w, ok) ==
    /\ bws[w].pc = "work"
    /\ IF ok
       THEN /\ bws' = [bws EXCEPT ![w].pc = "check"]
            /\ UNCHANGED <<queue, bhist>>
       ELSE bg_return(w, <<BgError(w)>>)
    /\ UNCHANGED <<calc, tool, batch, video, ctrl, dir_exists, created, events,
                   input_image_path, processed_image_data, progress_dialog,
                   save_button>>

\* The second look at the flag, after rembg.remove.
bg_check(w) ==
    /\ bws[w].pc = "check"
    /\ IF ~bws[w].is_running
       THEN bg_return(w, <<>>)
       ELSE /\ bws' = [bws EXCEPT ![w].pc = "emit"]
            /\ UNCHANGED <<queue, bhist>>
    /\ UNCHANGED <<calc, tool, batch, video, ctrl, dir_exists, created, events,
                   input_image_path, processed_image_data, progress_dialog,
                   save_button>>

\* self.result_ready.emit(output_data)
bg_emit_result(w) ==
    /\ bws[w].pc = "emit"
    /\ bg_return(w, <<ResultReady(w, bws[w].input_path)>>)
    /\ UNCHANGED <<calc, tool, batch, video, ctrl, dir_exists, created, events,
                   input_image_path, processed_image_data, progress_dialog,
                   save_button>>

----
Next ==
    \/ \E files \in DialogFiles : select_files(files)
    \/ clear_list
    \/ \E d \in {None, Dir} : select_output_dir(d)
    \/ \E v \in Params : edit_param(v)
    \/ start
    \/ start_rejected
    \/ update_progress
    \/ handle_file_result
    \/ handle_error
    \/ on_worker_finished
    \/ \E w \in Workers : run_begin(w)
    \/ \E w \in Workers : loop_step(w)
    \/ \E w \in Workers, ok \in BOOLEAN : makedirs(w, ok)
    \/ \E w \in Workers, st \in {ErrorStatus} \cup {SuccessStatus(t) : t \in Tools} :
            op_finish(w, st)
    \/ \E w \in Workers : stop(w)
    \/ video_select_file
    \/ \E d \in {None, Dir} : video_select_output_dir(d)
    \/ video_start_compression
    \/ video_handle_worker_started
    \/ video_handle_worker_finished
    \/ video_handle_error
    \/ \E w \in Workers, ok \in BOOLEAN : video_run_begin(w, ok)
    \/ \E w \in Workers : video_emit_started(w)
    \/ \E w \in Workers, ok \in BOOLEAN : video_popen(w, ok)
    \/ \E w \in Workers, rc \in {"ok", "fail"}, stderr \in StderrTexts,
          wrote \in BOOLEAN :
            video_process_exit(w, rc, stderr, wrote)
    \/ \E w \in Workers, ok \in BOOLEAN : video_handle_results(w, ok)
    \/ \E w \in Workers : video_finally(w)
    \/ \E w \in Workers, partial \in BOOLEAN, exits_in_time \in BOOLEAN,
          cleared \in BOOLEAN :
           video_stop(w, partial, exits_in_time, cleared)
    \/ \E f \in {None} \cup Images, loads \in BOOLEAN : bg_select_image(f, loads)
    \/ bg_remove_background
    \/ bg_cancel_processing
    \/ \E loads \in BOOLEAN : bg_handle_result(loads)
    \/ bg_handle_error
    \/ bg_on_worker_finished
    \/ \E w \in Workers : bg_run_begin(w)
    \/ \E w \in Workers, ok \in BOOLEAN : bg_work(w, ok)
    \/ \E w \in Workers : bg_check(w)
    \/ \E w \in Workers : bg_emit_result(w)

Spec == Init /\ [][Next]_vars

\* The steps of worker w's run(): the thread, once started, is scheduled.
WorkerStep(w) ==
    \/ run_begin(w)
    \/ loop_step(w)
    \/ \E ok \in BOOLEAN : makedirs(w, ok)
    \/ \E st \in {ErrorStatus} \cup {SuccessStatus(t) : t \in Tools} : op_finish(w, st)

\* The control thread's event loop delivers the queued signals.
Deliver ==
    \/ update_progress
    \/ handle_file_result
    \/ handle_error
    \/ on_worker_finished

\* Spec with the scheduling of the worker threads and of the event loop:
\* each call of the operation returns, and a queued signal is delivered.
LiveSpec ==
    /\ Spec
    /\ \A w \in Workers : WF_vars(WorkerStep(w))
    /\ WF_vars(Deliver)

----
\* Computations of the workers and widgets, each followed on its own: the
\* inputs are drawn at the start and the computation is applied to them.

\* Image and target sizes run over 1..MaxDim.
MaxDim == 15
Dims == 1..MaxDim

\* IEEE 754 binary64 arithmetic on positive values, as CPython's float
\* uses it.  A float is [m, e]: m is the significand as MantissaBits bits,
\* most significant first and never 0 at the front, and the value is
\* m[1].m[2]m[3]... times 2^e.
MantissaBits == 53

\* Digits handled in one step of the long division and multiplication.
Chunk == 9

RECURSIVE BitsToInt(_)
BitsToInt(b) ==
    IF b = <<>> THEN 0
    ELSE 2 * BitsToInt(SubSeq(b, 1, Len(b) - 1)) + b[Len(b)]

RECURSIVE IntToBits(_)
IntToBits(n) == IF n = 0 THEN <<>> ELSE IntToBits(n \div 2) \o <<n % 2>>

\* The n binary digits of v < 2^n, most significant first.
Digits(v, n) == [i \in 1..n |-> (v \div 2^(n - i)) % 2]

\* b + 1 on a bit string of fixed length; all ones wraps to all zeros.
IncBits(b) ==
    LET zeros == {k \in 1..Len(b) : b[k] = 0}
        p == IF zeros = {} THEN 0
             ELSE CHOOSE k \in zeros : \A j \in zeros : j <= k
    IN  [k \in 1..Len(b) |-> IF k < p THEN b[k] ELSE IF k = p THEN 1 ELSE 0]

\* Round-half-to-even of the bit string kept followed by the bits of rest,
\* of which the first is the half bit; sticky says that more non-zero
\* digits follow rest.
RoundUp(kept, rest, sticky) ==
    /\ rest # <<>>
    /\ rest[1] = 1
    /\ \/ sticky
       \/ \E k \in 2..Len(rest) : rest[k] = 1
       \/ kept[Len(kept)] = 1

\* A bit string with a leading 1 of any length >= MantissaBits, times
\* 2^e at its first bit, rounded to a float.
RoundToFloat(b, e, sticky) ==
    LET kept == SubSeq(b, 1, MantissaBits)
        rest == SubSeq(b, MantissaBits + 1, Len(b))
    IN  IF RoundUp(kept, rest, sticky)
        THEN LET up == IncBits(kept)
             IN  IF up[1] = 0
                 THEN [m |-> <<1>> \o SubSeq(up, 1, MantissaBits - 1), e |-> e + 1]
                 ELSE [m |-> up, e |-> e]
        ELSE [m |-> kept, e |-> e]

\* floor(log2(n / d)) for positive integers
RECURSIVE Log2Floor(_, _)
Log2Floor(n, d) ==
    IF n >= 2 * d THEN Log2Floor(n, 2 * d) + 1
    ELSE IF n < d THEN Log2Floor(2 * n, d) - 1
    ELSE 0

\* The next k binary digits of r / den (r < den), and the remainder left;
\* long division, Chunk digits at a time.
RECURSIVE DivDigits(_, _, _)
DivDigits(r, den, k) ==
    IF k = 0 THEN [bits |-> <<>>, rem |-> r]
    ELSE LET c == IF k < Chunk THEN k ELSE Chunk
             rest == DivDigits((r * 2^c) % den, den, k - c)
         IN  [bits |-> Digits((r * 2^c) \div den, c) \o rest.bits,
              rem |-> rest.rem]

\* n / d for positive integers (true division of exactly represented ints)
FloatDiv(n, d) ==
    LET a == Log2Floor(n, d)
        num == IF a < 0 THEN n * 2^(0 - a) ELSE n
        den == IF a > 0 THEN d * 2^a ELSE d
        q == DivDigits(num - den, den, MantissaBits)
    IN  RoundToFloat(<<1>> \o q.bits, a, q.rem # 0)

\* The digits of b * w, for a small positive integer w, from carry c on;
\* long multiplication, Chunk digits at a time.
RECURSIVE MulDigits(_, _, _)
MulDigits(b, w, c) ==
    IF b = <<>> THEN IntToBits(c)
    ELSE LET n == IF Len(b) < Chunk THEN Len(b) ELSE Chunk
             v == BitsToInt(SubSeq(b, Len(b) - n + 1, Len(b))) * w + c
         IN  MulDigits(SubSeq(b, 1, Len(b) - n), w, v \div 2^n) \o
                 Digits(v % 2^n, n)

\* w * x for a positive integer w, which is exact as a float, and a float x
FloatMulInt(w, x) ==
    LET p == MulDigits(x.m, w, 0)
    IN  RoundToFloat(p, x.e + (Len(p) - MantissaBits), FALSE)

\* x < y
FloatLess(x, y) ==
    \/ x.e < y.e
    \/ /\ x.e = y.e
       /\ \E k \in 1..MantissaBits :
              /\ x.m[k] < y.m[k]
              /\ \A j \in 1..(k - 1) : x.m[j] = y.m[j]

\* min(x, y) of Python: y only when y < x
FloatMin(x, y) == IF FloatLess(y, x) THEN y ELSE x

\* int(x): truncation
FloatToInt(x) ==
    IF x.e < 0 THEN 0 ELSE BitsToInt(SubSeq(x.m, 1, x.e + 1))

Max(a, b) == IF a >= b THEN a ELSE b

\* The output size ImageResizingWorker.run computes.
new_size(original_width, original_height, target_width, target_height, keep_aspect) ==
    IF keep_aspect
    THEN LET width_ratio == FloatDiv(target_width, original_width)
             height_ratio == FloatDiv(target_height, original_height)
             ratio == FloatMin(width_ratio, height_ratio)
         IN  <<Max(1, FloatToInt(FloatMulInt(original_width, ratio))),
               Max(1, FloatToInt(FloatMulInt(original_height, ratio)))>>
    ELSE <<target_width, target_height>>

\* An input of a computation: its name and its arguments, no result yet,
\* and no file that matters.
Input(op, args) == [op |-> op, args |-> args, out |-> <<>>, fs |-> <<>>]

ResizeInputs ==
    {Input("new_size", <<ow, oh, tw, th, keep>>) :
        ow \in Dims, oh \in Dims, tw \in Dims, th \in Dims, keep \in BOOLEAN}

\* ImageResizingWorker.run on one opened image: the size handed to resize().
resize_image ==
    /\ calc.op = "new_size"
    /\ calc.out = <<>>
    /\ calc' = [calc EXCEPT !.out =
                   <<new_size(calc.args[1], calc.args[2], calc.args[3],
                              calc.args[4], calc.args[5])>>]
    /\ UNCHANGED widget

\* VideoCompressorWidget.QUALITY_TO_CRF
QUALITY_TO_CRF == (1 :> 30) @@ (2 :> 28) @@ (3 :> 25) @@ (4 :> 23) @@ (5 :> 20)

DEFAULT_QUALITY_LEVEL == 3

\* Quality levels the lookup is tried on run over 0..MaxLevel; the slider
\* itself offers 1..5.
MaxLevel == 6

CrfInputs == {Input("crf", <<quality_level>>) : quality_level \in 0..MaxLevel}

\* The lookup with the fallback of the lowest level, not of the default one.
crf_value_lowest(quality_level) ==
    IF quality_level \in DOMAIN QUALITY_TO_CRF
    THEN QUALITY_TO_CRF[quality_level]
    ELSE 30

\* QUALITY_TO_CRF.get(quality_level, 25)
crf_value(quality_level) ==
    IF quality_level \in DOMAIN QUALITY_TO_CRF
    THEN QUALITY_TO_CRF[quality_level]
    ELSE 25

\* _start_compression: the quality parameter handed to the worker.
quality_to_crf ==
    /\ calc.op = "crf"
    /\ calc.out = <<>>
    /\ calc' = [calc EXCEPT !.out = <<crf_value(calc.args[1])>>]
    /\ UNCHANGED widget

\* Image files.  A path is <<directory, base name, extension>>.  The content
\* of a file is the format it was encoded in and the pixels that were
\* encoded; the pixels are told by the lossy encodings the original pixels
\* <<>> went through, so a deterministic encoder gives equal bytes exactly
\* for equal contents.
Dirs == {1, 2}
Formats == {"jpg", "png"}
Lossy == {"jpg"}

Content(format, pixels) == [format |-> format, pixels |-> pixels]

\* Image.open(path) and the pixels its load() gives
decode(content) ==
    IF content.format \in Lossy
    THEN Append(content.pixels, content.format)
    ELSE content.pixels

\* A conversion of the file <<input_dir, "a", ext>> into target_format under
\* output_dir, which the widget requires to be chosen.
ConvertInputs ==
    {[op |-> "convert",
      args |-> <<<<input_dir, "a", ext>>, output_dir, target_format>>,
      out |-> <<>>,
      fs |-> (<<input_dir, "a", ext>> :> Content(ext, <<>>))] :
        input_dir \in Dirs, ext \in Formats, output_dir \in Dirs,
        target_format \in Formats}

\* The output path of ImageConversionWorker.run for one input path.
conversion_output_path(input_path, output_dir, target_format) ==
    <<output_dir, input_path[2], target_format>>

\* The body of the loop of ImageConversionWorker.run for one input path:
\* the files after it.  A missing input is an error status and no file.
convert_file(fs, input_path, output_dir, target_format) ==
    IF input_path \notin DOMAIN fs THEN fs
    ELSE (conversion_output_path(input_path, output_dir, target_format) :>
              Content(target_format, decode(fs[input_path]))) @@ fs

\* One run of the conversion on the input; out collects what each run wrote.
MaxRuns == 2

convert_image ==
    /\ calc.op = "convert"
    /\ Len(calc.out) < MaxRuns
    /\ LET fs == convert_file(calc.fs, calc.args[1], calc.args[2], calc.args[3])
           output_path ==
               conversion_output_path(calc.args[1], calc.args[2], calc.args[3])
       IN  calc' = [calc EXCEPT !.fs = fs, !.out = Append(@, fs[output_path])]
    /\ UNCHANGED widget

\* File names are strings of pieces, of which none begins another, so two
\* names are the same string exactly when they are the same sequence.
Pieces == {"a", "A", ".", "_compressed", "_resized", "_1"}

MaxName == 3

RECURSIVE Strings(_)
Strings(n) ==
    IF n = 0 THEN {<<>>}
    ELSE LET shorter == Strings(n - 1)
         IN  shorter \cup {Append(name, c) : name \in shorter, c \in Pieces}

FileNames == Strings(MaxName) \ {<<>>}

\* os.path.splitext on a file name: the extension begins at the last dot,
\* unless only dots come before it.
splitext(file_name) ==
    LET dots == {k \in 1..Len(file_name) : file_name[k] = "."}
        dotIndex == IF dots = {} THEN 0
                    ELSE CHOOSE k \in dots : \A j \in dots : j <= k
    IN  IF \E k \in 1..(dotIndex - 1) : file_name[k] # "."
        THEN <<SubSeq(file_name, 1, dotIndex - 1),
               SubSeq(file_name, dotIndex, Len(file_name))>>
        ELSE <<file_name, <<>>>>

\* str.lower()
lower(str) == [k \in 1..Len(str) |-> IF str[k] = "A" THEN "a" ELSE str[k]]

\* "_compressed" in the compression worker, "_resized" in the resizing one
Suffix(t) == IF t = "comp" THEN "_compressed" ELSE "_resized"

\* A worker that writes under the input's own name.
output_path_plain(t, file_dir, file_name, output_dir) ==
    LET base_name == splitext(file_name)[1]
        ext == lower(splitext(file_name)[2])
        current_output_dir == IF output_dir # None THEN output_dir ELSE file_dir
    IN  <<current_output_dir, base_name \o ext>>

\* The output path the compression and resizing workers choose for the
\* input file_dir/file_name; output_dir is None when writing in place.
output_path(t, file_dir, file_name, output_dir) ==
    LET base_name == splitext(file_name)[1]
        ext == lower(splitext(file_name)[2])
        current_output_dir == IF output_dir # None THEN output_dir ELSE file_dir
        output_filename == base_name \o <<Suffix(t)>> \o ext
    IN  IF current_output_dir = file_dir /\ output_filename = file_name
        THEN <<current_output_dir, base_name \o <<Suffix(t), "_1">> \o ext>>
        ELSE <<current_output_dir, output_filename>>

\* The input <<1, file_name>> of a compression or resizing worker, and the
\* worker's output folder.
NameInputs ==
    {Input("output_path", <<t, 1, file_name, output_dir>>) :
        t \in {"comp", "resize"}, file_name \in FileNames,
        output_dir \in {None} \cup Dirs}

\* The loop body up to output_path = os.path.join(...).
choose_output_path ==
    /\ calc.op = "output_path"
    /\ calc.out = <<>>
    /\ calc' = [calc EXCEPT !.out =
                   <<output_path(calc.args[1], calc.args[2], calc.args[3],
                                 calc.args[4])>>]
    /\ UNCHANGED widget

\* Two distinct input paths of one batch run: for the converter paths as
\* in ConvertInputs with an output folder and a target format; for the
\* compressor and the resizer paths <<directory, file name>> with names of
\* letters and dots, an output folder or none, and no format.
ConvPaths == {<<dir, "a", ext>> : dir \in Dirs, ext \in Formats}

PlainNames ==
    {name \in FileNames : /\ \A k \in 1..Len(name) : name[k] \in {"a", "A", "."}
                          /\ \E k \in 1..Len(name) : name[k] # "."}

NamePaths == {<<dir, name>> : dir \in Dirs, name \in PlainNames}

\* _select_files keeps a path out of the list that is already in it.
Pairs(paths) == {pair \in paths \X paths : pair[1] # pair[2]}

BatchInputs ==
    {Input("outputs", <<"conv", pair[1], pair[2], output_dir, target_format>>) :
        pair \in Pairs(ConvPaths), output_dir \in Dirs,
        target_format \in Formats}
    \cup
    {Input("outputs", <<t, pair[1], pair[2], output_dir, "">>) :
        t \in {"comp", "resize"}, pair \in Pairs(NamePaths),
        output_dir \in {None} \cup Dirs}

\* The output path the worker of tool t chooses for input_path.
batch_output_path(t, input_path, output_dir, target_format) ==
    IF t = "conv"
    THEN conversion_output_path(input_path, output_dir, target_format)
    ELSE output_path(t, input_path[1], input_path[2], output_dir)

\* Two iterations of the loop of run(): the output path of each item.
choose_batch_outputs ==
    /\ calc.op = "outputs"
    /\ calc.out = <<>>
    /\ calc' = [calc EXCEPT !.out =
           <<batch_output_path(calc.args[1], calc.args[2], calc.args[4], calc.args[5]),
             batch_output_path(calc.args[1], calc.args[3], calc.args[4], calc.args[5])>>]
    /\ UNCHANGED widget

\* The inputs of one computation are drawn.
CalcInputs ==
    \/ calc \in ResizeInputs
    \/ calc \in CrfInputs
    \/ calc \in ConvertInputs
    \/ calc \in NameInputs
    \/ calc \in BatchInputs

CalcInit ==
    /\ WidgetInit
    /\ tool = "resize"
    /\ dir_exists
    /\ CalcInputs

CalcNext ==
    \/ resize_image
    \/ quality_to_crf
    \/ convert_image
    \/ choose_output_path
    \/ choose_batch_outputs

CalcSpec == CalcInit /\ [][CalcNext]_vars

----
\* Properties

NonDecreasing(s) == \A a, b \in 1..Len(s) : a <= b => s[a] <= s[b]

IsCancelled(e) == e.status = Cancelled

\* Number of outcomes in e that are not Cancelled.
Processed(e) == Cardinality({j \in 1..Len(e) : ~IsCancelled(e[j])})

\* stop() reached worker w when it had finished k items and stood at pc.
StoppedAt(w, k, pc) == hist[w].stop_at = <<k, pc>>

Stopped(w) == hist[w].stop_at # <<>>

\* C1: in the latest run over N inputs, the controller's success, failure
\* and cancelled counts add up to the number of outcomes it has handled for
\* that run (so counts + still pending = N), and once it has handled the
\* run's finished signal nothing is pending: the counts add up to N.
C1_CountsConserved ==
    created # 0 =>
        LET w == created
            N == Len(hist[w].given)
            still_pending == N - Len(hist[w].handled)
        IN  /\ success_count + fail_count + cancelled_count + still_pending = N
            /\ hist[w].fin => still_pending = 0

\* C2: at most one worker of the tool instance is live (started, finished
\* signal not yet handled) at any moment.
C2_AtMostOneLive == Cardinality(LiveWorkers) <= 1

\* C3: a click on start while a worker is live changes neither self.worker
\* nor the success and failure counts nor the progress bar's value and
\* maximum.
C3_StartWhileLiveChangesNothing ==
    [][(LiveWorkers # {} /\ start) =>
            /\ worker' = worker
            /\ success_count' = success_count
            /\ fail_count' = fail_count
            /\ progress_bar'.value = progress_bar.value
            /\ progress_bar'.maximum = progress_bar.maximum]_vars

\* C4: while a worker is live, the list it iterates over, its output folder
\* and its parameter value are those it was constructed with.
C4_InputsFrozenWhileLive ==
    \A w \in Workers :
        Live(w) =>
            /\ input_paths(w) = hist[w].given
            /\ ws[w].output_dir = hist[w].given_dir
            /\ ws[w].param = hist[w].given_param

\* C5: a worker emits file_processed only for paths of the list it was
\* constructed with, never twice for one path, and by the time run() has
\* returned once for every path of that list.
C5_OneOutcomePerInput ==
    \A w \in Workers :
        LET e == hist[w].emitted
            g == hist[w].given
        IN  /\ \A j \in 1..Len(e) : e[j].path \in Range(g)
            /\ \A j, k \in 1..Len(e) : j # k => e[j].path # e[k].path
            /\ ws[w].pc = "done" =>
                   \A p \in Range(g) : \E j \in 1..Len(e) : e[j].path = p

\* C6: when stop() reaches a worker before it has begun its first item,
\* every file_processed it emits is Cancelled: no Success, no Failure.
C6_StopBeforeFirstItemCancelsAll ==
    \A w \in Workers :
        (StoppedAt(w, 0, "start") \/ StoppedAt(w, 0, "top")) =>
            \A j \in 1..Len(hist[w].emitted) : IsCancelled(hist[w].emitted[j])

C6_Witness ==
    \E w \in Workers :
        /\ StoppedAt(w, 0, "start") \/ StoppedAt(w, 0, "top")
        /\ ws[w].pc = "done"
        /\ Len(hist[w].given) >= 2
        /\ Len(hist[w].emitted) = Len(hist[w].given)

\* C7: when stop() reaches a worker between items k and k+1 (k >= 1), then
\* by the time run() has returned items 1..k have the non-Cancelled outcomes
\* they were given and every item k+1..N has been reported Cancelled.
C7_StopAfterItemK ==
    \A w \in Workers :
        \A k \in 1..MaxFiles :
            (StoppedAt(w, k, "top") /\ ws[w].pc = "done") =>
                LET e == hist[w].emitted
                    g == hist[w].given
                IN  /\ Len(e) = Len(g)
                    /\ \A j \in 1..Len(g) :
                           /\ e[j].path = g[j]
                           /\ IsCancelled(e[j]) <=> (j > k)

C10_ProgressNeverDecreases ==
    \A w \in Workers :
        /\ NonDecreasing(hist[w].progs)
        /\ NonDecreasing(hist[w].applied)

C10_Witness ==
    \E w \in Workers :
        /\ hist[w].fin
        /\ Len(hist[w].progs) >= 3
        /\ hist[w].applied = hist[w].progs

IsPrefix(s, t) ==
    /\ Len(s) <= Len(t)
    /\ \A k \in 1..Len(s) : s[k] = t[k]

Outcome(e) == [path |-> e.path, status |-> e.status]

TerminalHandled(w) ==
    \/ hist[w].fin
    \/ \E k \in 1..Len(vhist[w].handled) : vhist[w].handled[k].type = "video_finished"

FromWorker(w) == {k \in 1..Len(queue) : queue[k].w = w}

C13_ReleasedOnlyAfterTerminal ==
    [][(worker # None /\ worker' # worker) =>
            LET w == worker
            IN  \/ hist'[w].fin
                \/ \E k \in 1..Len(vhist'[w].handled) :
                       vhist'[w].handled[k].type = "video_finished"]_vars

\* C14: when the operation fails on a worker's i-th item, the Failure is
\* reported for the i-th path of the list the worker was constructed with,
\* and the run does not end there: by the time run() has returned there is
\* an outcome for every item of that list.
C14_FailureNeverAbortsBatch ==
    \A w \in Workers :
        LET e == hist[w].emitted
            g == hist[w].given
        IN  \A j \in 1..Len(e) :
                e[j].status = ErrorStatus =>
                    /\ j <= Len(g)
                    /\ e[j].path = g[j]
                    /\ ws[w].pc = "done" => Len(e) = Len(g)

C16_NoWorkerWithoutEncoder ==
    (tool = "video" /\ ~ffmpeg_found) =>
        /\ created = 0
        /\ \A w \in Workers : vws[w].pc = "new"

\* Positions of the finished signal among the signals of video worker w.
FinishedAt(w) ==
    {k \in 1..Len(vhist[w].emitted) : vhist[w].emitted[k].type = "video_finished"}

VideoStatuses ==
    {"Error: Input not found", "Error: No output directory",
     "Error: FFmpeg not found", "Error: Cannot create output dir",
     "Error: Failed to run ffmpeg", "Error: FFmpeg reported issues",
     "Error: FFmpeg failed", "Success", Cancelled}

\* C17: a video worker emits finished at most once, it has emitted it
\* exactly once when run() has returned and not before the end of run(), and
\* the signal carries one of the final status strings.
C17_ExactlyOneTerminal ==
    \A w \in Workers :
        /\ Cardinality(FinishedAt(w)) <= 1
        /\ vws[w].pc = "done" <=> Cardinality(FinishedAt(w)) = 1
        /\ \A k \in FinishedAt(w) :
               /\ k = Len(vhist[w].emitted)
               /\ vhist[w].emitted[k].status \in VideoStatuses

\* A video run that was stopped has returned and emitted its one finished.
C17_Witness ==
    \E w \in Workers :
        /\ vws[w].pc = "done"
        /\ vhist[w].stop_pc # ""
        /\ Cardinality(FinishedAt(w)) = 1

\* C18: when stop() was called on a video worker before it emitted
\* finished, the finished signal of that run carries Cancelled.
C18_StoppedRunEndsCancelled ==
    \A w \in Workers :
        vhist[w].stop_pc # "" =>
            \A k \in FinishedAt(w) : vhist[w].emitted[k].status = Cancelled

\* C19: when the only video run so far has ended with finished(Cancelled),
\* no output file exists (none existed before the run).
C19_CancelledRunLeavesNoOutput ==
    (created = 1 /\ \E k \in FinishedAt(1) :
                        vhist[1].emitted[k].status = Cancelled) =>
        ~output_exists

\* C20: a video worker emits started at most once, before its finished
\* signal, and only when its ffmpeg process has been launched.
C20_StartedOnlyAfterLaunch ==
    \A w \in Workers :
        LET StartedAt == {k \in 1..Len(vhist[w].emitted) :
                              vhist[w].emitted[k].type = "started"}
        IN  /\ Cardinality(StartedAt) <= 1
            /\ \A k \in StartedAt :
                   /\ vhist[w].launched
                   /\ \A j \in FinishedAt(w) : k < j

\* C21: under LiveSpec every started batch worker reaches the end of run(),
\* where QThread emits finished, whether or not stop() was called.
C21_RunTerminates ==
    \A w \in Workers : (ws[w].pc = "start") ~> (ws[w].pc = "done")

\* A run that was stopped after a processed item has ended, with a
\* processed and a Cancelled outcome.
C21_Witness ==
    \E w \in Workers :
        /\ ws[w].pc = "done"
        /\ Stopped(w)
        /\ \E j, k \in 1..Len(hist[w].emitted) :
               /\ ~IsCancelled(hist[w].emitted[j])
               /\ IsCancelled(hist[w].emitted[k])

\* The controller handles the terminal notification at the head of the queue.
HandlesTerminal ==
    /\ queue # <<>>
    /\ Head(queue).type \in {"finished", "video_finished", "bg_finished"}
    /\ queue' = Tail(queue)

\* C22: the step in which the controller handles a terminal notification
\* leaves the worker reference cleared, the start control enabled exactly
\* when the tool's inputs are present (with an output folder for the
\* converter and the video compressor) and the input controls enabled
\* (the clear control when there is something to clear).
C22_TerminalResetsControls ==
    [][HandlesTerminal =>
        /\ worker' = None
        /\ buttons'.select_files
        /\ tool \in Tools =>
              /\ buttons'.start <=>
                    (selected_files' # <<>> /\
                     (tool = "conv" => output_directory' # None))
              /\ buttons'.clear_list <=> selected_files' # <<>>
              /\ buttons'.output_dir /\ buttons'.params
        /\ tool = "video" =>
              /\ buttons'.start <=>
                    (input_video_path' # None /\ output_directory' # None)
              /\ buttons'.output_dir /\ buttons'.params
        /\ tool = "bg" =>
              (buttons'.start <=> input_image_path' # None)]_vars

\* A compressor run has been handled to its end and the controls, disabled
\* during the run, are enabled again.
C22_Witness ==
    /\ tool = "comp"
    /\ hist[1].fin
    /\ worker = None
    /\ buttons.start
    /\ buttons.select_files

\* What the size of a locked resize is by the exact formula:
\* r = min(Tw/W, Th/H), w = max(1, floor(W*r)), h = max(1, floor(H*r)).
ExactSize(W, H, Tw, Th) ==
    IF Tw * H <= Th * W
    THEN <<Max(1, Tw), Max(1, (H * Tw) \div W)>>
    ELSE <<Max(1, (W * Th) \div H), Max(1, Th)>>

\* C23: with the aspect-ratio lock on, the size computed for an image of
\* size (W,H) and a target (Tw,Th) is (max(1, floor(W*r)), max(1, floor(H*r)))
\* with r = min(Tw/W, Th/H); with the lock off it is exactly (Tw,Th).
C23_SizeIsExactFormula ==
    (calc.op = "new_size" /\ calc.out # <<>>) =>
        calc.out[1] = IF calc.args[5]
                      THEN ExactSize(calc.args[1], calc.args[2],
                                     calc.args[3], calc.args[4])
                      ELSE <<calc.args[3], calc.args[4]>>

\* C24: the video tool maps each quality level of its table to that level's
\* quality parameter, level 3 to 25, and a level outside the table to the
\* default, which is the value of the default quality level.
C24_QualityMapsToCrf ==
    (calc.op = "crf" /\ calc.out # <<>>) =>
        LET quality_level == calc.args[1]
            crf == calc.out[1]
        IN  /\ quality_level \in DOMAIN QUALITY_TO_CRF =>
                   crf = QUALITY_TO_CRF[quality_level]
            /\ quality_level = 3 => crf = 25
            /\ quality_level \notin DOMAIN QUALITY_TO_CRF =>
                   crf = QUALITY_TO_CRF[DEFAULT_QUALITY_LEVEL]

\* A level outside the table has been looked up.
C24_Witness ==
    /\ calc.op = "crf"
    /\ calc.args[1] \notin DOMAIN QUALITY_TO_CRF
    /\ calc.out = <<25>>

\* C25: two runs of the conversion on the same input path, with the same
\* target format and output directory, write the same output, whatever the
\* input's directory, the output directory and the format are.
C25_ConversionIdempotent ==
    (calc.op = "convert" /\ Len(calc.out) = 2) => calc.out[1] = calc.out[2]

\* C26: a worker's cancellation flag changes only in a step that is a call
\* of its stop(): no step of run() changes it, and once it says
\* cancel-requested it says so for the rest of the worker's life.
C26_FlagChangesOnlyByStop ==
    [][\A w \in Workers :
          /\ ws'[w].is_running # ws[w].is_running => stop(w)
          /\ vws'[w].is_running # vws[w].is_running =>
                 \E partial \in BOOLEAN, exits_in_time \in BOOLEAN,
                    cleared \in BOOLEAN :
                     video_stop(w, partial, exits_in_time, cleared)
          /\ bws'[w].is_running # bws[w].is_running =>
                 (worker = w /\ bg_cancel_processing)
          /\ ~ws[w].is_running => ~ws'[w].is_running
          /\ ~vws[w].is_running => ~vws'[w].is_running
          /\ ~bws[w].is_running => ~bws'[w].is_running]_vars

\* stop() was called before run() began, and run() has returned since.
C26_Witness ==
    \E w \in Workers :
        /\ StoppedAt(w, 0, "start")
        /\ ws[w].pc = "done"
        /\ ~ws[w].is_running

\* The outcomes of kind among those worker w has emitted.
EmittedOfKind(w, kind) ==
    Cardinality({j \in 1..Len(hist[w].emitted) :
                    OutcomeKind(tool, hist[w].emitted[j].status) = kind})

\* C27: the counts are zero when a batch run is launched; besides that only
\* the handling of an outcome changes them: a Success adds one to
\* success_count only, a Failure adds one to fail_count only, a Cancelled
\* changes neither; and when the terminal notification of a run that was
\* never stopped is handled, the counts are the numbers of items that
\* succeeded and that failed.
C27_CountsChangedOnlyByOutcomes ==
    [][LET launched == created' # created
           handling == /\ queue # <<>>
                       /\ Head(queue).type = "file_processed"
                       /\ queue' = Tail(queue)
           terminal == /\ queue # <<>>
                       /\ Head(queue).type = "finished"
                       /\ queue' = Tail(queue)
           kind == OutcomeKind(tool, Head(queue).status)
       IN  /\ launched => success_count' = 0 /\ fail_count' = 0
           /\ (~launched /\ ~handling) => UNCHANGED <<success_count, fail_count>>
           /\ handling =>
                  /\ success_count' =
                         success_count + (IF kind = "Success" THEN 1 ELSE 0)
                  /\ fail_count' =
                         fail_count + (IF kind = "Failure" THEN 1 ELSE 0)
           /\ (terminal /\ ~Stopped(Head(queue).w)) =>
                  /\ success_count' = EmittedOfKind(Head(queue).w, "Success")
                  /\ fail_count' = EmittedOfKind(Head(queue).w, "Failure")]_vars

\* C28: in the compression and resizing workers, a step in which the
\* missing output folder cannot be created emits a Failure outcome for the
\* item in hand, then that item's progress, and leaves the worker at the
\* head of the loop for the next item: run() does not end there.
C28_MkdirFailureIsItemFailure ==
    [][\A w \in Workers :
          (ws[w].pc = "mk" /\ ws'[w].pc \notin {"mk", "op"}) =>
              LET n == Len(queue)
              IN  /\ tool \in {"comp", "resize"}
                  /\ Len(queue') = n + 2
                  /\ queue'[n + 1].type = "file_processed"
                  /\ queue'[n + 1].w = w
                  /\ queue'[n + 1].path = ws[w].input_path
                  /\ OutcomeKind(tool, queue'[n + 1].status) = "Failure"
                  /\ queue'[n + 2] =
                         ProgressMsg(w, ws[w].i + 1, ws[w].total_files)
                  /\ ws'[w].pc = "top"
                  /\ ws'[w].i = ws[w].i + 1]_vars

\* The folder could not be created for the first item, and the worker has
\* gone on to report the second.
C28_Witness ==
    \E w \in Workers :
        /\ Len(hist[w].emitted) = 2
        /\ hist[w].emitted[1].status = MkdirErrorStatus
        /\ hist[w].emitted[2].path # hist[w].emitted[1].path

\* C29: when the compression or resizing worker writes in place (no output
\* folder), the output path it chooses is never the path of the input it
\* is processing, whatever the file's name and extension are.
C29_InPlaceOutputIsNotInput ==
    (calc.op = "output_path" /\ calc.out # <<>> /\ calc.args[4] = None) =>
        calc.out[1] # <<calc.args[2], calc.args[3]>>

\* An in-place output path was chosen for a file with an upper-case
\* extension: a.A gives a_compressed.a in the same folder.
C29_Witness ==
    /\ calc.op = "output_path"
    /\ calc.args = <<"comp", 1, <<"a", ".", "A">>, None>>
    /\ calc.out = <<<<1, <<"a", "_compressed", ".", "a">>>>>>

\* C30: a stop() of the video worker that finds a live process calls
\* terminate() first, then waits the bounded interval, and calls kill()
\* only when the process has not exited by the end of it; a stop() that
\* finds no process, or one that has exited, sets the flag and changes
\* nothing else.  A process that exits by itself and whose handle the
\* worker clears before poll() is called is not alive for stop().
C30_StopTerminatesThenKills ==
    [][\A w \in Workers :
          vhist'[w].stop_pc # vhist[w].stop_pc =>
              LET ops == vhist'[w].stop_ops
              IN  IF vws[w].process = "alive" /\ ~vhist'[w].stop_fault
                  THEN /\ Len(ops) >= 2
                       /\ ops[1] = "terminate"
                       /\ ops[2] = "wait"
                       /\ Len(ops) = (IF vhist'[w].expired THEN 3 ELSE 2)
                       /\ vhist'[w].expired => ops[3] = "kill"
                       /\ ~vws'[w].is_running
                  ELSE /\ ops = <<>>
                       /\ vws' = [vws EXCEPT ![w].is_running = FALSE]
                       /\ UNCHANGED <<output_exists, queue, worker, buttons,
                                      status_label>>]_vars

\* A stop() found the process alive, the wait expired, and it killed it.
C30_Witness ==
    \E w \in Workers :
        /\ vhist[w].stop_process = "alive"
        /\ vhist[w].expired
        /\ vhist[w].stop_ops = <<"terminate", "wait", "kill">>

CancelGesture ==
    /\ tool = "bg"
    /\ progress_dialog = "shown"
    /\ progress_dialog' = "hidden"
    /\ events' # events

\* The background remover has a worker whose finished signal is not handled.
BgActive == worker # None /\ bws[worker].pc # "new" /\ ~bhist[worker].fin

\* What the relay must leave alone, and that only the handler of the
\* terminal notification changes the worker reference and the controls of
\* an active worker.
RelayFrame ==
    /\ CancelGesture =>
           UNCHANGED <<worker, buttons, processed_image_data, save_button>>
    /\ (tool = "bg" /\ BgActive /\ ~UNCHANGED <<worker, buttons>>) =>
           (queue # <<>> /\ Head(queue).type = "bg_finished"
                         /\ queue' = Tail(queue))

\* C32 as stated: a cancel gesture while a worker is active (its finished
\* signal not handled yet) sets that worker's flag by stop(), and changes
\* neither the worker reference, nor the controls, nor the stored result.
C32_CancelRelaysStop ==
    [][/\ (CancelGesture /\ BgActive) => ~bws'[worker].is_running
       /\ RelayFrame]_vars

\* C32: a cancel gesture while the worker's thread runs calls stop() on
\* that worker; once run() has returned the relay calls nothing; in both
\* cases it changes neither the worker reference, nor the controls, nor
\* the stored result, which only the handler of the terminal notification
\* changes afterwards.
C32_CancelRelaysStopWhileRunning ==
    [][/\ (CancelGesture /\ BgActive) =>
              IF bgIsRunning(worker)
              THEN ~bws'[worker].is_running
              ELSE UNCHANGED bws
       /\ RelayFrame]_vars

\* The cancel gesture reached a worker inside run(), which is still the
\* widget's worker.
C32_Witness ==
    /\ tool = "bg"
    /\ worker # None
    /\ bhist[worker].stop_pc = "work"
    /\ ~bws[worker].is_running
    /\ progress_dialog = "hidden"
    /\ ~buttons.start

\* Worker w of the tool has been started and its terminal notification is
\* not handled yet.
Active(w) ==
    \/ Live(w)
    \/ vws[w].pc # "new" /\ ~TerminalHandled(w)
    \/ bws[w].pc # "new" /\ ~bhist[w].fin

\* C33: while a worker of the tool is active, the start control and the
\* controls that edit the inputs (select files, clear list, output folder,
\* parameters) are all disabled, in every tool.
C33_ControlsDisabledWhileActive ==
    (\E w \in Workers : Active(w)) =>
        /\ ~buttons.start
        /\ ~buttons.select_files
        /\ ~buttons.clear_list
        /\ ~buttons.output_dir
        /\ ~buttons.params

\* C34: every progress signal of a batch worker carries a completed count
\* between 0 and the total, the total is the number of inputs the run was
\* launched with, and when run() has returned without any stop() the last
\* progress signal is (N, N).
C34_ProgressWithinTotal ==
    \A w \in Workers :
        LET N == Len(hist[w].given)
            progs == hist[w].progs
        IN  /\ \A k \in 1..Len(progs) :
                   /\ 0 <= progs[k]
                   /\ progs[k] <= ws[w].total_files
                   /\ ws[w].total_files = N
            /\ (ws[w].pc = "done" /\ ~Stopped(w)) =>
                   /\ progs # <<>>
                   /\ progs[Len(progs)] = N

\* C35: within one batch run two distinct input items are never written to
\* the same output path, in the converter and, with or without an output
\* folder, in the compressor and the resizer.
C35_DistinctInputsDistinctOutputs ==
    (calc.op = "outputs" /\ calc.out # <<>>) => calc.out[1] # calc.out[2]

\* C36: the conversion never writes its output over the file it converts:
\* after a run, the path it wrote for the input differs from the input's
\* path, for every input path, output directory and target format.
C36_ConversionOutputIsNotInput ==
    (calc.op = "convert" /\ Len(calc.out) >= 1) =>
        conversion_output_path(calc.args[1], calc.args[2], calc.args[3])
            # calc.args[1]

\* C37: once stop() has been called on a background-removal worker, the
\* worker emits no result_ready after the call and the controller handles no
\* result of that worker, so the processed image stays unset for the run.
C37_NoResultAfterStop ==
    \A w \in Workers :
        bhist[w].stop_pc # "" =>
            /\ \A k \in 1..Len(bhist[w].emitted) :
                   bhist[w].emitted[k].type = "result_ready" =>
                       ~bhist[w].emitted[k].after_stop
            /\ \A k \in 1..Len(bhist[w].handled) :
                   bhist[w].handled[k] # "result_ready"

\* C38: in the background remover the save control is enabled only if a
\* processed image is stored, a stored processed image is the result
\* computed from the currently selected input image, and the selected input
\* does not change while a worker is active.
SaveMatchesInput ==
    /\ save_button => processed_image_data # None
    /\ processed_image_data # None => processed_image_data = input_image_path

C38_SavedImageIsOfSelectedInput ==
    /\ [](tool = "bg" => SaveMatchesInput)
    /\ [][BgActive => input_image_path' = input_image_path]_vars

\* A result was stored and Save enabled, the worker has finished, and a
\* second image was offered to the dialog afterwards or not at all.
C38_Witness ==
    /\ tool = "bg"
    /\ save_button
    /\ processed_image_data # None
    /\ worker = None
    /\ \E w \in Workers : bhist[w].fin /\ "result_ready" \in Range(bhist[w].handled)

\* C39: a call of the video worker's stop() from the control thread never
\* faults, however it interleaves with the worker thread's launch of the
\* process and its clearing of the process handle after the process exits.
C39_StopNeverFaults ==
    \A w \in Workers : ~vhist[w].stop_fault

====
